---------------------------- MODULE Spec2Model ----------------------------
(***************************************************************************)
(* SPIFlash: driver for 256-byte/page serial NOR flash (src/SPIFlash.cpp). *)
(*                                                                         *)
(* The driver is modelled statement by statement: every select(),         *)
(* unselect() and SPI.transfer() is one step of the function that makes   *)
(* it, and calls push a frame on `stack`.  The bus, the interrupt flag,    *)
(* the chip-select pin and the flash chip are the environment; the chip   *)
(* follows the command table of the data sheet (program = AND into the     *)
(* page, in-page counter wraps at 256, busy until the operation ends).    *)
(***************************************************************************)
EXTENDS Integers, Sequences, FiniteSets, TLC

(***************************************************************************)
(* Bounds of the model.                                                    *)
(***************************************************************************)
\* public operations called in one behaviour of Spec
MaxCalls == 1
\* public operations called in one behaviour of SpecSeq
MaxSeqCalls == 2
\* writes and read-backs in one behaviour of SpecPages
MaxPageCalls == 2
\* public operations called in one behaviour of SpecLive
MaxLiveCalls == 2
\* consecutive "busy" answers one busy-wait is followed through
MaxPolls == 1

(***************************************************************************)
(* Program constants.                                                      *)
(***************************************************************************)
\* page size used by writeBytes
PageSize == 256
\* uint16_t / word
Word16 == 65536
\* 24-bit address space on the wire
AddrSpace == 16777216

\* opcodes (SPIFlash.h)
SPIFLASH_WRITEENABLE == 6
SPIFLASH_STATUSREAD == 5
SPIFLASH_STATUSWRITE == 1
SPIFLASH_ARRAYREAD == 11
SPIFLASH_ARRAYREADLOWFREQ == 3
SPIFLASH_BYTEPAGEPROGRAM == 2
SPIFLASH_BLOCKERASE_4K == 32
SPIFLASH_BLOCKERASE_32K == 82
SPIFLASH_CHIPERASE == 96
SPIFLASH_IDREAD == 159
SPIFLASH_MACREAD == 75
SPIFLASH_SLEEP == 185
SPIFLASH_WAKE == 171

MutatingOpcodes ==
  {SPIFLASH_STATUSWRITE, SPIFLASH_BYTEPAGEPROGRAM, SPIFLASH_BLOCKERASE_4K,
   SPIFLASH_BLOCKERASE_32K, SPIFLASH_CHIPERASE}

AddressOpcodes ==
  {SPIFLASH_ARRAYREAD, SPIFLASH_ARRAYREADLOWFREQ, SPIFLASH_BYTEPAGEPROGRAM,
   SPIFLASH_BLOCKERASE_4K, SPIFLASH_BLOCKERASE_32K}

(***************************************************************************)
(* Arithmetic helpers.                                                     *)
(***************************************************************************)
\* conversion of an int/long argument to the byte SPI.transfer takes
Byte(x) == x % 256

\* x >> k for x >= 0
Shr(x, k) == x \div (2 ^ k)

RECURSIVE BitAnd(_, _)
BitAnd(a, b) ==
  IF a = 0 \/ b = 0 THEN 0
  ELSE (a % 2) * (b % 2) + 2 * BitAnd(a \div 2, b \div 2)

(***************************************************************************)
(* Inputs.                                                                 *)
(***************************************************************************)
\* expected identifiers given to the constructor (0 = do not verify)
JedecIDs == {0, 61232, 8004}

\* 24-bit addresses readByte is called with
Addrs == {74565, 16777215}

\* 24-bit addresses writeByte and the block erases are called with
EraseAddrs == {74565}

\* (addr, len) writeBytes is called with
Ranges == {<<254, 0>>, <<16777215, 0>>, <<254, 4>>, <<16777215, 2>>}

\* (addr, len) readBytes is called with
ReadRanges == {<<74565, 3>>, <<16777215, 2>>}

\* (addr, len, buffer) of the writes of the page-split checks; the same
\* ranges are read back
PageWrites ==
  {<<0, 3, "ramp">>, <<254, 0, "ramp">>, <<254, 4, "mixed">>,
   <<256, 2, "ramp">>, <<74565, 3, "ramp">>, <<16777215, 2, "ramp">>,
   <<255, 258, "mixed">>}

\* caller buffers "ramp" and "mixed": the byte at index i
Buf(id, i) ==
  IF id = "ramp" THEN (17 * (i + 1)) % 256
  ELSE (165 + 91 * i) % 251

\* single bytes written by writeByte
ByteVals == {90}

\* bus configurations (SPCR, SPSR bit SPI2X) other devices leave behind
OtherCfgs == {<<0, 0>>, <<124, 1>>}

(***************************************************************************)
(* State.                                                                  *)
(***************************************************************************)
VARIABLES
  _jedecID,        \* expected identifier (constructor)
  build32U4,       \* compiled with __AVR_ATmega32U4__ defined
  _SPCR, _SPSR,    \* saved bus control snapshot
  SPCR, SPSR,      \* bus peripheral: control register, SPI2X bit of status
  intEnabled,      \* global interrupt flag
  cs,              \* level of the chip-select line
  pinOut,          \* chip-select pin configured as output
  UNIQUEID,        \* class-level unique-id buffer
  outbuf,          \* bytes readBytes stored in the caller's buffer
  stack,           \* call stack of the driver, innermost frame first
  ret,             \* value returned by the last return
  dev,             \* flash chip: busy, latch, power, protocol state
  mem,             \* flash array: programmed bytes (absent = 0xFF)
  misoPull,        \* level read while the chip does not drive MISO
  trace,           \* bus events of the current public call
  budget,          \* public calls the caller still makes
  cur,             \* the current (or last) public call
  prev,            \* the call before it, kept when it was a writeBytes
  busCfgAtSelect   \* bus configuration found by the last select

vars ==
  <<_jedecID, build32U4, _SPCR, _SPSR, SPCR, SPSR, intEnabled, cs, pinOut,
    UNIQUEID, outbuf, stack, ret, dev, mem, misoPull, trace, budget, cur,
    prev, busCfgAtSelect>>

\* what the bus primitives may change
busvars ==
  <<_SPCR, _SPSR, SPCR, SPSR, intEnabled, cs, dev, mem, trace,
    busCfgAtSelect>>

\* fixed after construction / power-up
fixed == <<_jedecID, build32U4, misoPull>>

\* bookkeeping of the public calls
book == <<budget, cur, prev>>

(***************************************************************************)
(* The flash chip (data sheet behaviour; the driver's environment).        *)
(***************************************************************************)
\* identifier the chip answers to JEDEC-ID
DevJedec == 61232

\* factory-programmed unique id
DevUnique == <<210, 99, 4, 57, 18, 6, 77, 131>>

\* power-up value of the protection bits of the status register
SRProtected == 28

KnownOpcodes ==
  {SPIFLASH_WRITEENABLE, SPIFLASH_STATUSREAD, SPIFLASH_STATUSWRITE,
   SPIFLASH_ARRAYREAD, SPIFLASH_ARRAYREADLOWFREQ, SPIFLASH_BYTEPAGEPROGRAM,
   SPIFLASH_BLOCKERASE_4K, SPIFLASH_BLOCKERASE_32K, SPIFLASH_CHIPERASE,
   SPIFLASH_IDREAD, SPIFLASH_MACREAD, SPIFLASH_SLEEP, SPIFLASH_WAKE}

DevIdle ==
  [busy |-> FALSE, wel |-> FALSE, asleep |-> FALSE, sr |-> SRProtected,
   got |-> FALSE, ok |-> FALSE, cmd |-> 0, cnt |-> 0, addr |-> 0]

MemRead(m, a) == IF a \in DOMAIN m THEN m[a] ELSE 255

MemStore(m, a, v) ==
  IF v = 255 THEN [x \in DOMAIN m \ {a} |-> m[x]]
  ELSE [x \in DOMAIN m \cup {a} |-> IF x = a THEN v ELSE m[x]]

MemErase(m, lo, size) ==
  [x \in {y \in DOMAIN m : y < lo \/ y >= lo + size} |-> m[x]]

StatusByte(d) ==
  d.sr + (IF d.wel THEN 2 ELSE 0) + (IF d.busy THEN 1 ELSE 0)

\* does the chip take opcode op in state d
DevAccepts(d, op) ==
  IF d.asleep THEN op = SPIFLASH_WAKE
  ELSE IF d.busy THEN op = SPIFLASH_STATUSREAD
  ELSE IF op \in MutatingOpcodes THEN d.wel
  ELSE op \in KnownOpcodes

\* address the next data byte of a program command goes to
ProgramTarget(d) ==
  ((d.addr \div 256) * 256) + ((d.addr + (d.cnt - 3)) % 256)

\* the byte the chip shifts out while byte b is shifted in
DevReply(d, m, pull) ==
  IF ~d.got \/ ~d.ok THEN pull
  ELSE IF d.cmd = SPIFLASH_STATUSREAD THEN StatusByte(d)
  ELSE IF d.cmd = SPIFLASH_IDREAD THEN
    (IF d.cnt = 0 THEN DevJedec \div 256
     ELSE IF d.cnt = 1 THEN DevJedec % 256 ELSE 0)
  ELSE IF d.cmd = SPIFLASH_MACREAD THEN
    (IF d.cnt >= 4 /\ d.cnt < 12 THEN DevUnique[d.cnt - 3] ELSE pull)
  ELSE IF d.cmd = SPIFLASH_ARRAYREAD THEN
    (IF d.cnt >= 4 THEN MemRead(m, (d.addr + d.cnt - 4) % AddrSpace) ELSE pull)
  ELSE IF d.cmd = SPIFLASH_ARRAYREADLOWFREQ THEN
    (IF d.cnt >= 3 THEN MemRead(m, (d.addr + d.cnt - 3) % AddrSpace) ELSE pull)
  ELSE pull

\* the chip after byte b was shifted in
DevOnByte(d, b) ==
  IF ~d.got THEN
    [d EXCEPT !.got = TRUE, !.cmd = b, !.ok = DevAccepts(d, b),
              !.cnt = 0, !.addr = 0]
  ELSE
    [d EXCEPT !.cnt = @ + 1,
              !.addr = IF d.cnt < 3 /\ d.cmd \in AddressOpcodes
                       THEN @ * 256 + b ELSE @,
              !.sr = IF d.ok /\ d.cmd = SPIFLASH_STATUSWRITE /\ d.cnt = 0
                     THEN BitAnd(b, SRProtected) ELSE @]

MemOnByte(d, m, b) ==
  IF d.got /\ d.ok /\ d.cmd = SPIFLASH_BYTEPAGEPROGRAM /\ d.cnt >= 3
  THEN MemStore(m, ProgramTarget(d), BitAnd(MemRead(m, ProgramTarget(d)), b))
  ELSE m

\* an accepted, complete program / erase / status write starts an
\* internal operation when chip-select rises
DevStartsOperation(d) ==
  /\ d.got /\ d.ok
  /\ \/ d.cmd = SPIFLASH_STATUSWRITE /\ d.cnt = 1
     \/ d.cmd = SPIFLASH_BYTEPAGEPROGRAM /\ d.cnt >= 4
     \/ d.cmd \in {SPIFLASH_BLOCKERASE_4K, SPIFLASH_BLOCKERASE_32K} /\ d.cnt = 3
     \/ d.cmd = SPIFLASH_CHIPERASE /\ d.cnt = 0

\* the chip after chip-select rose
DevOnDeselect(d) ==
  [d EXCEPT !.got = FALSE, !.ok = FALSE, !.cmd = 0, !.cnt = 0, !.addr = 0,
            !.busy = d.busy \/ DevStartsOperation(d),
            !.wel = d.wel \/ (d.got /\ d.ok /\ d.cmd = SPIFLASH_WRITEENABLE
                              /\ d.cnt = 0),
            !.asleep = IF d.got /\ d.ok /\ d.cnt = 0
                          /\ d.cmd = SPIFLASH_SLEEP THEN TRUE
                       ELSE IF d.got /\ d.ok /\ d.cmd = SPIFLASH_WAKE
                       THEN FALSE ELSE @]

MemOnDeselect(d, m) ==
  IF ~DevStartsOperation(d) THEN m
  ELSE IF d.cmd = SPIFLASH_CHIPERASE THEN MemErase(m, 0, AddrSpace)
  ELSE IF d.cmd = SPIFLASH_BLOCKERASE_4K
    THEN MemErase(m, (d.addr \div 4096) * 4096, 4096)
  ELSE IF d.cmd = SPIFLASH_BLOCKERASE_32K
    THEN MemErase(m, (d.addr \div 32768) * 32768, 32768)
  ELSE m

\* the internal program / erase / status write ends; the write-enable
\* latch is cleared with it
DeviceFinish ==
  /\ dev.busy
  /\ dev' = [dev EXCEPT !.busy = FALSE, !.wel = FALSE]
  /\ UNCHANGED <<_jedecID, build32U4, _SPCR, _SPSR, SPCR, SPSR, intEnabled,
                 cs, pinOut, UNIQUEID, outbuf, stack, ret, mem, misoPull,
                 trace, budget, cur, prev, busCfgAtSelect>>

\* the byte a status read would get now
StatusNow == IF dev.asleep THEN misoPull ELSE StatusByte(dev)

\* the answer a status read would get now has bit 0 set
ReportsBusy ==
  IF dev.asleep THEN misoPull % 2 = 1 ELSE dev.busy

(***************************************************************************)
(* Bus peripheral (Arduino SPI library) and the bus primitives.            *)
(***************************************************************************)
ClearMask(v, m) == v - BitAnd(v, m)

SetMask(v, m) == (v - BitAnd(v, m)) + m

\* SPI.setDataMode(SPI_MODE0); SPI.setBitOrder(MSBFIRST);
\* SPI.setClockDivider(SPI_CLOCK_DIV4); SPI.begin()  on SPCR
FlashSPCR(v) == SetMask(ClearMask(ClearMask(ClearMask(v, 12), 32), 3), 80)

\* SPI.setClockDivider(SPI_CLOCK_DIV4) on the SPI2X bit of SPSR
FlashSPSR(v) == ClearMask(v, 1)

\* SPI.end() on SPCR
EndSPCR(v) == ClearMask(v, 64)

EvSel == [e |-> "sel", out |-> 0, in |-> 0, bsy |-> FALSE]

EvUnsel == [e |-> "unsel", out |-> 0, in |-> 0, bsy |-> FALSE]

EvTx(o, i, b) == [e |-> "tx", out |-> o, in |-> i, bsy |-> b]

\* the byte SPI.transfer returns now
Rx == IF cs = "LOW" THEN DevReply(dev, mem, misoPull) ELSE misoPull

\* variant: select does not save the configuration it finds
select_NoSave ==
  /\ intEnabled' = FALSE
  /\ SPCR' = FlashSPCR(SPCR)
  /\ SPSR' = FlashSPSR(SPSR)
  /\ cs' = "LOW"
  /\ busCfgAtSelect' = <<SPCR, SPSR>>
  /\ trace' = Append(trace, EvSel)
  /\ UNCHANGED <<_SPCR, _SPSR, dev, mem>>

\* variant: select leaves the interrupt flag alone
select_NoMask ==
  /\ _SPCR' = SPCR
  /\ _SPSR' = SPSR
  /\ SPCR' = FlashSPCR(SPCR)
  /\ SPSR' = FlashSPSR(SPSR)
  /\ cs' = "LOW"
  /\ busCfgAtSelect' = <<SPCR, SPSR>>
  /\ trace' = Append(trace, EvSel)
  /\ UNCHANGED <<intEnabled, dev, mem>>

\* SPIFlash::select
select ==
  /\ intEnabled' = FALSE
  /\ _SPCR' = SPCR
  /\ _SPSR' = SPSR
  /\ SPCR' = FlashSPCR(SPCR)
  /\ SPSR' = FlashSPSR(SPSR)
  /\ cs' = "LOW"
  /\ busCfgAtSelect' = <<SPCR, SPSR>>
  /\ trace' = Append(trace, EvSel)
  /\ UNCHANGED <<dev, mem>>

\* variant: unselect leaves the interrupt flag as select left it
unselect_KeepMask ==
  /\ cs' = "HIGH"
  /\ SPCR' = _SPCR
  /\ SPSR' = _SPSR
  /\ dev' = IF cs = "LOW" THEN DevOnDeselect(dev) ELSE dev
  /\ mem' = IF cs = "LOW" THEN MemOnDeselect(dev, mem) ELSE mem
  /\ trace' = Append(trace, EvUnsel)
  /\ UNCHANGED <<_SPCR, _SPSR, intEnabled, busCfgAtSelect>>

\* SPIFlash::unselect
unselect ==
  /\ cs' = "HIGH"
  /\ SPCR' = _SPCR
  /\ SPSR' = _SPSR
  /\ intEnabled' = TRUE
  /\ dev' = IF cs = "LOW" THEN DevOnDeselect(dev) ELSE dev
  /\ mem' = IF cs = "LOW" THEN MemOnDeselect(dev, mem) ELSE mem
  /\ trace' = Append(trace, EvUnsel)
  /\ UNCHANGED <<_SPCR, _SPSR, busCfgAtSelect>>

\* SPI.transfer(b): one full-duplex byte exchange
transfer(b) ==
  /\ dev' = IF cs = "LOW" THEN DevOnByte(dev, b) ELSE dev
  /\ mem' = IF cs = "LOW" THEN MemOnByte(dev, mem, b) ELSE mem
  /\ trace' = Append(trace, EvTx(b, Rx, dev.busy))
  /\ UNCHANGED <<_SPCR, _SPSR, SPCR, SPSR, intEnabled, cs, busCfgAtSelect>>

\* an interrupt handler or other driver of a device sharing the bus
\* reconfigures the peripheral
OtherBusUser ==
  /\ intEnabled
  /\ cs = "HIGH"
  /\ \E c \in OtherCfgs :
       /\ c # <<SPCR, SPSR>>
       /\ SPCR' = c[1]
       /\ SPSR' = c[2]
  /\ UNCHANGED <<_jedecID, build32U4, _SPCR, _SPSR, intEnabled, cs, pinOut,
                 UNIQUEID, outbuf, stack, ret, dev, mem, misoPull, trace,
                 budget, cur, prev, busCfgAtSelect>>

(***************************************************************************)
(* Call stack.                                                             *)
(***************************************************************************)
Frame(fn) ==
  [fn |-> fn, pc |-> 0, cmd |-> 0, isWrite |-> FALSE, addr |-> 0, len |-> 0,
   buf |-> "", byt |-> 0, n |-> 0, maxBytes |-> 0, offset |-> 0, i |-> 0,
   v |-> 0]

Top == stack[1]

Running(fn) == stack # <<>> /\ Top.fn = fn

\* continue in the same frame
Goto(pc) == stack' = <<[Top EXCEPT !.pc = pc]>> \o Tail(stack)

Become(f) == stack' = <<f>> \o Tail(stack)

\* call f and continue at pc after it returns
Invoke(f, pc) == stack' = <<f, [Top EXCEPT !.pc = pc]>> \o Tail(stack)

Return(val) == stack' = Tail(stack) /\ ret' = val

\* variant: the address goes out low byte first
AddrByte_LowFirst(addr, k) == Byte(Shr(addr, 8 * k))

\* byte k (0 = high) of the 24-bit address, as handed to SPI.transfer
AddrByte(addr, k) == Byte(Shr(addr, 16 - 8 * k))

\* a step that touches no bus primitive
NoBus == UNCHANGED busvars

\* variables only a few functions write
Rest3 == UNCHANGED <<pinOut, UNIQUEID, outbuf, fixed, book>>

(***************************************************************************)
(* Command issuance and status (SPIFlash::command, busy, readStatus).      *)
(***************************************************************************)
CommandFrame(cmd, isWrite) ==
  [Frame("command") EXCEPT !.cmd = cmd, !.isWrite = isWrite]

\* variant: the write-enable transaction is never sent
NeedsWriteEnable_Never(f) == FALSE

\* isWrite: the write-enable transaction comes first
NeedsWriteEnable(f) == f.isWrite

\* busy(): bit 0 of the status byte
BusyBit(status) == BitAnd(status, 1)

\* variant: the wait is left on a busy answer and kept on a ready one
KeepsPolling_Inverted(r) == r = 0

\* variant: the opcode is sent without waiting
KeepsPolling_Never(r) == FALSE

\* while(busy());
KeepsPolling(r) == r # 0

\* the wait would go on after a status read made now
NextPollBusy == KeepsPolling(BusyBit(StatusNow))

command ==
  /\ Running("command")
  /\ \/ /\ Top.pc = 0
        /\ IF NeedsWriteEnable(Top)
           THEN Invoke(CommandFrame(SPIFLASH_WRITEENABLE, FALSE), 1)
           ELSE Goto(2)
        /\ NoBus /\ Rest3 /\ UNCHANGED ret
     \/ /\ Top.pc = 1
        /\ unselect
        /\ Goto(2)
        /\ Rest3 /\ UNCHANGED ret
     \/ /\ Top.pc = 2
        /\ Top.i < MaxPolls \/ ~NextPollBusy
        /\ Invoke(Frame("busy"), 3)
        /\ NoBus /\ Rest3 /\ UNCHANGED ret
     \/ /\ Top.pc = 3
        /\ IF KeepsPolling(ret)
           THEN Become([Top EXCEPT !.pc = 2, !.i = @ + 1])
           ELSE Goto(4)
        /\ NoBus /\ Rest3 /\ UNCHANGED ret
     \/ /\ Top.pc = 4
        /\ select
        /\ Goto(5)
        /\ Rest3 /\ UNCHANGED ret
     \/ /\ Top.pc = 5
        /\ transfer(Top.cmd)
        /\ Return(0)
        /\ Rest3

busy ==
  /\ Running("busy")
  /\ \/ /\ Top.pc = 0
        /\ Invoke(Frame("readStatus"), 1)
        /\ NoBus /\ Rest3 /\ UNCHANGED ret
     \/ /\ Top.pc = 1
        /\ Return(BusyBit(ret))
        /\ NoBus /\ Rest3

\* variant: readStatus returns with its transaction still open
readStatus_Open ==
  /\ Running("readStatus")
  /\ \/ /\ Top.pc = 0
        /\ select
        /\ Goto(1)
        /\ Rest3 /\ UNCHANGED ret
     \/ /\ Top.pc = 1
        /\ transfer(SPIFLASH_STATUSREAD)
        /\ Goto(2)
        /\ Rest3 /\ UNCHANGED ret
     \/ /\ Top.pc = 2
        /\ transfer(0)
        /\ Return(Rx)
        /\ Rest3

readStatus ==
  /\ Running("readStatus")
  /\ \/ /\ Top.pc = 0
        /\ select
        /\ Goto(1)
        /\ Rest3 /\ UNCHANGED ret
     \/ /\ Top.pc = 1
        /\ transfer(SPIFLASH_STATUSREAD)
        /\ Goto(2)
        /\ Rest3 /\ UNCHANGED ret
     \/ /\ Top.pc = 2
        /\ transfer(0)
        /\ Become([Top EXCEPT !.pc = 3, !.v = Rx])
        /\ Rest3 /\ UNCHANGED ret
     \/ /\ Top.pc = 3
        /\ unselect
        /\ Return(Top.v)
        /\ Rest3

(***************************************************************************)
(* Identification (initialize, readDeviceId, readUniqueId).                *)
(***************************************************************************)
\* variant: the second response byte becomes the high byte
JedecWord_LowFirst(first, second) == ((second * 256) % Word16) + first

\* word jedecid = SPI.transfer(0) << 8; jedecid |= SPI.transfer(0);
JedecWord(first, second) == ((first * 256) % Word16) + second

\* _jedecID == 0 || readDeviceId() == _jedecID, once the id was read
IdMatches(expected, word) == word = expected

\* variant: the status write keeps every protection bit set
GlobalUnprotect_Protect == SRProtected

\* SPI.transfer(0): the status byte of the global unprotect
GlobalUnprotect == 0

initialize ==
  /\ Running("initialize")
  /\ \/ /\ Top.pc = 0
        /\ _SPCR' = SPCR
        /\ _SPSR' = SPSR
        /\ pinOut' = TRUE
        /\ Goto(1)
        /\ UNCHANGED <<SPCR, SPSR, intEnabled, cs, dev, mem, trace,
                       busCfgAtSelect, UNIQUEID, outbuf, fixed, book, ret>>
     \/ /\ Top.pc = 1
        /\ unselect
        /\ Goto(2)
        /\ Rest3 /\ UNCHANGED ret
     \/ /\ Top.pc = 2
        /\ Invoke(Frame("wakeup"), 3)
        /\ NoBus /\ Rest3 /\ UNCHANGED ret
     \/ /\ Top.pc = 3
        /\ IF _jedecID = 0 THEN Goto(5) ELSE Invoke(Frame("readDeviceId"), 4)
        /\ NoBus /\ Rest3 /\ UNCHANGED ret
     \/ /\ Top.pc = 4
        /\ IF IdMatches(_jedecID, ret)
           THEN Goto(5) /\ UNCHANGED ret
           ELSE Return(0)
        /\ NoBus /\ Rest3
     \/ /\ Top.pc = 5
        /\ Invoke(CommandFrame(SPIFLASH_STATUSWRITE, TRUE), 6)
        /\ NoBus /\ Rest3 /\ UNCHANGED ret
     \/ /\ Top.pc = 6
        /\ transfer(GlobalUnprotect)
        /\ Goto(7)
        /\ Rest3 /\ UNCHANGED ret
     \/ /\ Top.pc = 7
        /\ unselect
        /\ Return(1)
        /\ Rest3

readDeviceId ==
  /\ Running("readDeviceId")
  /\ \/ /\ Top.pc = 0
        /\ build32U4
        /\ Invoke(CommandFrame(SPIFLASH_IDREAD, FALSE), 2)
        /\ NoBus /\ Rest3 /\ UNCHANGED ret
     \/ /\ Top.pc = 0
        /\ ~build32U4
        /\ select
        /\ Goto(1)
        /\ Rest3 /\ UNCHANGED ret
     \/ /\ Top.pc = 1
        /\ transfer(SPIFLASH_IDREAD)
        /\ Goto(2)
        /\ Rest3 /\ UNCHANGED ret
     \/ /\ Top.pc = 2
        /\ transfer(0)
        /\ Become([Top EXCEPT !.pc = 3, !.v = Rx])
        /\ Rest3 /\ UNCHANGED ret
     \/ /\ Top.pc = 3
        /\ transfer(0)
        /\ Become([Top EXCEPT !.pc = 4, !.v = JedecWord(Top.v, Rx)])
        /\ Rest3 /\ UNCHANGED ret
     \/ /\ Top.pc = 4
        /\ unselect
        /\ Return(Top.v)
        /\ Rest3

readUniqueId ==
  /\ Running("readUniqueId")
  /\ \/ /\ Top.pc = 0
        /\ Invoke(CommandFrame(SPIFLASH_MACREAD, FALSE), 1)
        /\ NoBus /\ Rest3 /\ UNCHANGED ret
     \/ /\ Top.pc = 1
        /\ transfer(0)
        /\ IF Top.i < 3
           THEN Become([Top EXCEPT !.i = @ + 1])
           ELSE Become([Top EXCEPT !.pc = 2, !.i = 0])
        /\ Rest3 /\ UNCHANGED ret
     \/ /\ Top.pc = 2
        /\ Top.i < 8
        /\ transfer(0)
        /\ UNIQUEID' = [UNIQUEID EXCEPT ![Top.i + 1] = Rx]
        /\ Become([Top EXCEPT !.i = @ + 1])
        /\ UNCHANGED <<pinOut, outbuf, fixed, book, ret>>
     \/ /\ Top.pc = 2
        /\ Top.i >= 8
        /\ unselect
        /\ Return(0)
        /\ Rest3

(***************************************************************************)
(* Read path (readByte, readBytes).                                        *)
(***************************************************************************)
\* the three address transfers shared by every addressed command:
\* SPI.transfer(addr >> 16); SPI.transfer(addr >> 8); SPI.transfer(addr);
\* at pc 1, 2, 3 of the frame, continuing at pc 4
SendAddr ==
  /\ Top.pc \in {1, 2, 3}
  /\ transfer(AddrByte(Top.addr, Top.pc - 1))
  /\ Become([Top EXCEPT !.pc = @ + 1, !.i = 0])
  /\ Rest3 /\ UNCHANGED ret

readByte ==
  /\ Running("readByte")
  /\ \/ /\ Top.pc = 0
        /\ Invoke(CommandFrame(SPIFLASH_ARRAYREADLOWFREQ, FALSE), 1)
        /\ NoBus /\ Rest3 /\ UNCHANGED ret
     \/ SendAddr
     \/ /\ Top.pc = 4
        /\ transfer(0)
        /\ Become([Top EXCEPT !.pc = 5, !.v = Rx])
        /\ Rest3 /\ UNCHANGED ret
     \/ /\ Top.pc = 5
        /\ unselect
        /\ Return(Top.v)
        /\ Rest3

readBytes ==
  /\ Running("readBytes")
  /\ \/ /\ Top.pc = 0
        /\ Invoke(CommandFrame(SPIFLASH_ARRAYREAD, FALSE), 1)
        /\ NoBus /\ Rest3 /\ UNCHANGED ret
     \/ SendAddr
     \/ /\ Top.pc = 4
        /\ transfer(0)
        /\ Goto(5)
        /\ Rest3 /\ UNCHANGED ret
     \/ /\ Top.pc = 5
        /\ Top.i < Top.len
        /\ transfer(0)
        /\ outbuf' = Append(outbuf, Rx)
        /\ Become([Top EXCEPT !.i = (@ + 1) % Word16])
        /\ UNCHANGED <<pinOut, UNIQUEID, fixed, book, ret>>
     \/ /\ Top.pc = 5
        /\ Top.i >= Top.len
        /\ unselect
        /\ Return(0)
        /\ Rest3

(***************************************************************************)
(* Program path (writeByte, writeBytes).                                   *)
(***************************************************************************)
\* variant: writeByte issues its opcode as a non-mutating command
writeByte_NoEnable ==
  /\ Running("writeByte")
  /\ \/ /\ Top.pc = 0
        /\ Invoke(CommandFrame(SPIFLASH_BYTEPAGEPROGRAM, FALSE), 1)
        /\ NoBus /\ Rest3 /\ UNCHANGED ret
     \/ SendAddr
     \/ /\ Top.pc = 4
        /\ transfer(Top.byt)
        /\ Goto(5)
        /\ Rest3 /\ UNCHANGED ret
     \/ /\ Top.pc = 5
        /\ unselect
        /\ Return(0)
        /\ Rest3

writeByte ==
  /\ Running("writeByte")
  /\ \/ /\ Top.pc = 0
        /\ Invoke(CommandFrame(SPIFLASH_BYTEPAGEPROGRAM, TRUE), 1)
        /\ NoBus /\ Rest3 /\ UNCHANGED ret
     \/ SendAddr
     \/ /\ Top.pc = 4
        /\ transfer(Top.byt)
        /\ Goto(5)
        /\ Rest3 /\ UNCHANGED ret
     \/ /\ Top.pc = 5
        /\ unselect
        /\ Return(0)
        /\ Rest3

\* variant: the first burst is not shortened to the end of its page
FirstMaxBytes_WholePage(addr) == PageSize

\* uint16_t maxBytes = 256-(addr%256);
FirstMaxBytes(addr) == (PageSize - (addr % PageSize)) % Word16

\* variant: everything that remains goes into one burst
BurstLen_Unsplit(len, maxBytes) == len

\* n = (len<=maxBytes) ? len : maxBytes;
BurstLen(len, maxBytes) == IF len <= maxBytes THEN len ELSE maxBytes

\* variant: the loop body runs before the length is tested
MoreToWrite_Always(len) == TRUE

\* while (len>0)
MoreToWrite(len) == len > 0

\* variant: the limit of the first burst is kept for the later ones
AfterBurst_KeepLimit(f) ==
  [f EXCEPT !.pc = 0, !.i = 0,
            !.addr = f.addr + f.n,
            !.offset = (f.offset + f.n) % Word16,
            !.len = (f.len - f.n) % Word16]

\* addr+=n; offset +=n; len -= n; maxBytes = 256;
AfterBurst(f) ==
  [f EXCEPT !.pc = 0, !.i = 0,
            !.addr = f.addr + f.n,
            !.offset = (f.offset + f.n) % Word16,
            !.len = (f.len - f.n) % Word16,
            !.maxBytes = PageSize]

WriteBytesFrame(addr, buf, len) ==
  [Frame("writeBytes") EXCEPT !.addr = addr, !.buf = buf, !.len = len,
                              !.maxBytes = FirstMaxBytes(addr), !.offset = 0]

writeBytes ==
  /\ Running("writeBytes")
  /\ \/ /\ Top.pc = 0
        /\ MoreToWrite(Top.len)
        /\ stack' = <<CommandFrame(SPIFLASH_BYTEPAGEPROGRAM, TRUE),
                      [Top EXCEPT !.pc = 1,
                                  !.n = BurstLen(Top.len, Top.maxBytes)]>>
                    \o Tail(stack)
        /\ NoBus /\ Rest3 /\ UNCHANGED ret
     \/ /\ Top.pc = 0
        /\ ~MoreToWrite(Top.len)
        /\ Return(0)
        /\ NoBus /\ Rest3
     \/ SendAddr
     \/ /\ Top.pc = 4
        /\ Top.i < Top.n
        /\ transfer(Buf(Top.buf, (Top.offset + Top.i) % Word16))
        /\ Become([Top EXCEPT !.i = (@ + 1) % Word16])
        /\ Rest3 /\ UNCHANGED ret
     \/ /\ Top.pc = 4
        /\ Top.i >= Top.n
        /\ unselect
        /\ Become(AfterBurst(Top))
        /\ Rest3 /\ UNCHANGED ret

(***************************************************************************)
(* Erase path and power (chipErase, blockErase4K/32K, sleep, wakeup, end). *)
(***************************************************************************)
\* command(opcode, isWrite); unselect();
BareCommand(fn, opcode, isWrite) ==
  /\ Running(fn)
  /\ \/ /\ Top.pc = 0
        /\ Invoke(CommandFrame(opcode, isWrite), 1)
        /\ NoBus /\ Rest3 /\ UNCHANGED ret
     \/ /\ Top.pc = 1
        /\ unselect
        /\ Return(0)
        /\ Rest3

\* command(opcode, true); three address bytes; unselect();
BlockErase(fn, opcode) ==
  /\ Running(fn)
  /\ \/ /\ Top.pc = 0
        /\ Invoke(CommandFrame(opcode, TRUE), 1)
        /\ NoBus /\ Rest3 /\ UNCHANGED ret
     \/ SendAddr
     \/ /\ Top.pc = 4
        /\ unselect
        /\ Return(0)
        /\ Rest3

\* variant: chipErase returns with the transaction still open
chipErase_NoUnselect ==
  /\ Running("chipErase")
  /\ \/ /\ Top.pc = 0
        /\ Invoke(CommandFrame(SPIFLASH_CHIPERASE, TRUE), 1)
        /\ NoBus /\ Rest3 /\ UNCHANGED ret
     \/ /\ Top.pc = 1
        /\ Return(0)
        /\ NoBus /\ Rest3

\* variant: chipErase waits for the erase to end before it returns
chipErase_Blocking ==
  /\ Running("chipErase")
  /\ \/ /\ Top.pc = 0
        /\ Invoke(CommandFrame(SPIFLASH_CHIPERASE, TRUE), 1)
        /\ NoBus /\ Rest3 /\ UNCHANGED ret
     \/ /\ Top.pc = 1
        /\ unselect
        /\ Goto(2)
        /\ Rest3 /\ UNCHANGED ret
     \/ /\ Top.pc = 2
        /\ Top.i < MaxPolls \/ ~NextPollBusy
        /\ Invoke(Frame("busy"), 3)
        /\ NoBus /\ Rest3 /\ UNCHANGED ret
     \/ /\ Top.pc = 3
        /\ IF KeepsPolling(ret)
           THEN Become([Top EXCEPT !.pc = 2, !.i = @ + 1]) /\ UNCHANGED ret
           ELSE Return(0)
        /\ NoBus /\ Rest3

chipErase == BareCommand("chipErase", SPIFLASH_CHIPERASE, TRUE)

blockErase4K == BlockErase("blockErase4K", SPIFLASH_BLOCKERASE_4K)

blockErase32K == BlockErase("blockErase32K", SPIFLASH_BLOCKERASE_32K)

\* variant: sleep issues its opcode as a mutating command
sleep_AsWrite == BareCommand("sleep", SPIFLASH_SLEEP, TRUE)

sleep == BareCommand("sleep", SPIFLASH_SLEEP, FALSE)

\* variant: wakeup sends its opcode without the busy-wait of command()
wakeup_Direct ==
  /\ Running("wakeup")
  /\ \/ /\ Top.pc = 0
        /\ select
        /\ Goto(1)
        /\ Rest3 /\ UNCHANGED ret
     \/ /\ Top.pc = 1
        /\ transfer(SPIFLASH_WAKE)
        /\ Goto(2)
        /\ Rest3 /\ UNCHANGED ret
     \/ /\ Top.pc = 2
        /\ unselect
        /\ Return(0)
        /\ Rest3

wakeup == BareCommand("wakeup", SPIFLASH_WAKE, FALSE)

end ==
  /\ Running("end")
  /\ SPCR' = EndSPCR(SPCR)
  /\ Return(0)
  /\ UNCHANGED <<_SPCR, _SPSR, SPSR, intEnabled, cs, dev, mem, trace,
                 busCfgAtSelect>>
  /\ Rest3

(***************************************************************************)
(* The caller: public operations, one at a time.                           *)
(***************************************************************************)
\* [addr, addr+len) reads 0xFF
Erased(addr, len) == \A a \in DOMAIN mem : a < addr \/ a >= addr + len

\* a public call, with what the checks need of the chip as the call found
\* it: whether the range of a writeBytes read 0xFF, and the status
\* register before initialize
CallRec(op, addr, len, buf, byt) ==
  [op |-> op, addr |-> addr, len |-> len, buf |-> buf, byt |-> byt,
   erased |-> IF op = "writeBytes" THEN Erased(addr, len) ELSE TRUE,
   sr |-> IF op = "initialize" THEN dev.sr ELSE 0,
   wel |-> IF op = "initialize" THEN dev.wel ELSE FALSE]

NoCall == [op |-> "none", addr |-> 0, len |-> 0, buf |-> "", byt |-> 0,
           erased |-> TRUE, sr |-> 0, wel |-> FALSE]

Call(f, c) ==
  /\ stack = <<>>
  /\ budget > 0
  /\ stack' = <<f>>
  /\ budget' = budget - 1
  /\ prev' = IF cur.op = "writeBytes" THEN cur ELSE NoCall
  /\ cur' = c
  /\ trace' = <<>>
  /\ outbuf' = <<>>
  /\ ret' = 0
  /\ UNCHANGED <<_jedecID, build32U4, _SPCR, _SPSR, SPCR, SPSR, intEnabled,
                 cs, pinOut, UNIQUEID, dev, mem, misoPull, busCfgAtSelect>>

CallPlain ==
  \E op \in {"initialize", "readDeviceId", "readUniqueId", "readStatus",
             "busy", "chipErase", "sleep", "wakeup", "end"} :
    Call(Frame(op), CallRec(op, 0, 0, "", 0))

CallReadByte ==
  \E a \in Addrs :
    Call([Frame("readByte") EXCEPT !.addr = a], CallRec("readByte", a, 0, "", 0))

CallBlockErase ==
  \E op \in {"blockErase4K", "blockErase32K"}, a \in EraseAddrs :
    Call([Frame(op) EXCEPT !.addr = a], CallRec(op, a, 0, "", 0))

CallWriteByte ==
  \E a \in EraseAddrs, b \in ByteVals :
    Call([Frame("writeByte") EXCEPT !.addr = a, !.byt = b],
         CallRec("writeByte", a, 1, "", b))

CallReadBytes ==
  \E r \in ReadRanges :
    Call([Frame("readBytes") EXCEPT !.addr = r[1], !.len = r[2]],
         CallRec("readBytes", r[1], r[2], "", 0))

CallWriteBytes ==
  \E r \in Ranges :
    Call(WriteBytesFrame(r[1], "ramp", r[2]),
         CallRec("writeBytes", r[1], r[2], "ramp", 0))

\* the calls of the page-split checks: the writes of PageWrites ...
CallWritePages ==
  \E r \in PageWrites :
    Call(WriteBytesFrame(r[1], r[3], r[2]),
         CallRec("writeBytes", r[1], r[2], r[3], 0))

\* ... and the read-back of the range just written
CallReadPages ==
  /\ cur.op = "writeBytes"
  /\ Call([Frame("readBytes") EXCEPT !.addr = cur.addr, !.len = cur.len],
          CallRec("readBytes", cur.addr, cur.len, "", 0))

(***************************************************************************)
(* Specification.                                                          *)
(***************************************************************************)
Constructed ==
  /\ _jedecID \in JedecIDs
  /\ build32U4 \in BOOLEAN
  /\ misoPull \in {0, 255}
  /\ \E c \in OtherCfgs : SPCR = c[1] /\ SPSR = c[2]
  /\ \E c \in OtherCfgs : _SPCR = c[1] /\ _SPSR = c[2]
  /\ intEnabled \in BOOLEAN
  /\ cs = "HIGH"
  /\ pinOut = FALSE
  /\ UNIQUEID = <<0, 0, 0, 0, 0, 0, 0, 0>>
  /\ outbuf = <<>>
  /\ stack = <<>>
  /\ ret = 0
  /\ dev = DevIdle
  /\ mem = (74566 :> 15)
  /\ trace = <<>>
  /\ cur = NoCall
  /\ prev = NoCall
  /\ busCfgAtSelect = <<SPCR, SPSR>>

Init == Constructed /\ budget = MaxCalls

Next ==
  \/ CallPlain \/ CallReadByte \/ CallBlockErase \/ CallWriteByte \/ CallReadBytes
  \/ CallWriteBytes
  \/ initialize \/ readDeviceId \/ readUniqueId
  \/ readByte \/ readBytes
  \/ command \/ busy \/ readStatus
  \/ writeByte \/ writeBytes
  \/ chipErase \/ blockErase4K \/ blockErase32K
  \/ sleep \/ wakeup \/ end
  \/ DeviceFinish \/ OtherBusUser

Spec == Init /\ [][Next]_vars

\* Sequences of public operations.
InitSeq == Constructed /\ budget = MaxSeqCalls

SpecSeq == InitSeq /\ [][Next]_vars

\* Sequences of public operations with the driver and the chip making
\* progress: the processor keeps executing the function it is in, and the
\* chip ends every internal operation it started.  The caller may stop
\* calling.  The bus is left to the driver, with one configuration.
InitLive ==
  /\ Constructed
  /\ budget = MaxLiveCalls
  /\ _jedecID = DevJedec
  /\ intEnabled
  /\ SPCR = 0
  /\ _SPCR = 0

Caller ==
  \/ CallPlain \/ CallReadByte \/ CallBlockErase \/ CallWriteByte
  \/ CallReadBytes \/ CallWriteBytes

Driver ==
  \/ initialize \/ readDeviceId \/ readUniqueId
  \/ readByte \/ readBytes
  \/ command \/ busy \/ readStatus
  \/ writeByte \/ writeBytes
  \/ chipErase \/ blockErase4K \/ blockErase32K
  \/ sleep \/ wakeup \/ end

NextLive == Caller \/ Driver \/ DeviceFinish

SpecLive ==
  InitLive /\ [][NextLive]_vars /\ WF_vars(Driver) /\ WF_vars(DeviceFinish)

\* The write and read paths alone, on longer ranges.  They read neither
\* the expected identifier nor the build flag, and the chip stays powered.
InitPages ==
  /\ Constructed
  /\ budget = MaxPageCalls
  /\ _jedecID = 0
  /\ ~build32U4
  /\ misoPull = 255
  /\ intEnabled
  /\ SPCR = 0
  /\ _SPCR = 0

NextPages ==
  \/ CallWritePages \/ CallReadPages
  \/ readBytes \/ writeBytes
  \/ command \/ busy \/ readStatus
  \/ DeviceFinish

SpecPages == InitPages /\ [][NextPages]_vars

(***************************************************************************)
(* Reading the recorded bus trace.                                         *)
(***************************************************************************)
\* positions of the select events
SelAt(t) == {i \in 1..Len(t) : t[i].e = "sel"}

\* position of the event closing the transaction opened at i (the next
\* select or unselect), or one past the end while it is open
EndOf(t, i) ==
  IF \E j \in (i + 1)..Len(t) : t[j].e # "tx"
  THEN CHOOSE j \in (i + 1)..Len(t) :
         /\ t[j].e # "tx"
         /\ \A k \in (i + 1)..(j - 1) : t[k].e = "tx"
  ELSE Len(t) + 1

\* the transaction opened at i has transmitted its opcode
HasOpcode(t, i) == i + 1 <= Len(t) /\ t[i + 1].e = "tx"

Opcode(t, i) == t[i + 1].out

\* select, opcode, unselect and nothing else
IsBare(t, i, op) ==
  /\ HasOpcode(t, i)
  /\ Opcode(t, i) = op
  /\ EndOf(t, i) = i + 2
  /\ i + 2 <= Len(t)
  /\ t[i + 2].e = "unsel"

\* transactions that transmitted opcode op
WithOpcode(t, op) == {i \in SelAt(t) : HasOpcode(t, i) /\ Opcode(t, i) = op}

\* the program bursts: address and number of data bytes
Bursts(t) == WithOpcode(t, SPIFLASH_BYTEPAGEPROGRAM)

BurstAddr(t, i) ==
  t[i + 2].out * 65536 + t[i + 3].out * 256 + t[i + 4].out

BurstLenOf(t, i) == EndOf(t, i) - i - 5

\* data bytes programmed by the bursts before the one at i
RECURSIVE SumLen(_, _)
SumLen(t, S) ==
  IF S = {} THEN 0
  ELSE LET i == CHOOSE x \in S : TRUE
       IN BurstLenOf(t, i) + SumLen(t, S \ {i})

Before(t, i) == SumLen(t, {j \in Bursts(t) : j < i})

\* the burst that follows the one at i
NextBurst(t, i, j) ==
  /\ j \in Bursts(t)
  /\ i < j
  /\ \A k \in Bursts(t) : ~(i < k /\ k < j)

Idle == stack = <<>>

Returned(op) == Idle /\ cur.op = op

(***************************************************************************)
(* C1  Page-split law.                                                     *)
(***************************************************************************)
\* every burst is a closed transaction carrying 1..256 data bytes
BurstsSized(t) ==
  \A i \in Bursts(t) :
    /\ EndOf(t, i) <= Len(t)
    /\ t[EndOf(t, i)].e = "unsel"
    /\ BurstLenOf(t, i) >= 1
    /\ BurstLenOf(t, i) <= 256

\* no burst has bytes on both sides of a multiple of 256
BurstsInPage(t) ==
  \A i \in Bursts(t) :
    BurstAddr(t, i) \div 256
      = (BurstAddr(t, i) + BurstLenOf(t, i) - 1) \div 256

\* the concatenation of the bursts' data is buf[0..len)
BurstsCarry(t, buf, len) ==
  LET B == Bursts(t)
  IN /\ SumLen(t, B) = len
     /\ \A i \in B :
          LET off == SumLen(t, {j \in B : j < i})
              n == BurstLenOf(t, i)
          IN \A k \in 1..n : t[i + 4 + k].out = Buf(buf, off + k - 1)

\* the first burst starts at addr
BurstsStartAt(t, addr) ==
  \A i \in Bursts(t) : Before(t, i) = 0 => BurstAddr(t, i) = addr

\* C1 as stated: when writeBytes(addr, buf, len) has returned, its program
\* bursts carry 1..256 bytes each, none crosses a multiple of 256, their
\* data concatenated is buf[0..len), the first is sent to addr and each
\* later one to the previous burst's address plus its byte count.
C1_PageSplitAsStated ==
  Returned("writeBytes") =>
    /\ BurstsSized(trace)
    /\ BurstsInPage(trace)
    /\ BurstsCarry(trace, cur.buf, cur.len)
    /\ BurstsStartAt(trace, cur.addr)
    /\ \A i, j \in Bursts(trace) :
         NextBurst(trace, i, j) =>
           BurstAddr(trace, j) = BurstAddr(trace, i) + BurstLenOf(trace, i)

\* C1 amended: the same, with each later burst sent to the previous
\* burst's address plus its byte count modulo 2^24 (only the low 24 bits
\* of the running address are transmitted).
C1_PageSplitLaw ==
  Returned("writeBytes") =>
    /\ BurstsSized(trace)
    /\ BurstsInPage(trace)
    /\ BurstsCarry(trace, cur.buf, cur.len)
    /\ BurstsStartAt(trace, cur.addr)
    /\ \A i, j \in Bursts(trace) :
         NextBurst(trace, i, j) =>
           BurstAddr(trace, j)
             = (BurstAddr(trace, i) + BurstLenOf(trace, i)) % AddrSpace

\* a write of 258 bytes from 0x0000FF has returned in three bursts
C1_Witness ==
  /\ Returned("writeBytes")
  /\ cur.addr = 255
  /\ cur.len = 258
  /\ Cardinality(Bursts(trace)) = 3

(***************************************************************************)
(* C5  Read round-trip.                                                    *)
(***************************************************************************)
\* readBytes(a, out, n) directly after writeBytes(a, B, n) on a range that
\* lies inside the chip and read 0xFF before the write
RoundTrip ==
  /\ Returned("readBytes")
  /\ prev.op = "writeBytes"
  /\ prev.addr = cur.addr
  /\ prev.len = cur.len
  /\ prev.erased
  /\ cur.addr + cur.len <= AddrSpace

\* C5: after writeBytes(a, B, n) on an erased range inside the chip,
\* readBytes(a, out, n) returns out = B, against the chip's memory model
\* (program ANDs into the page, the in-page counter wraps at 256, busy
\* until the program ends).
C5_ReadRoundTrip ==
  RoundTrip =>
    /\ Len(outbuf) = cur.len
    /\ \A k \in 1..cur.len : outbuf[k] = Buf(prev.buf, k - 1)

\* a round trip over three pages from an unaligned address
C5_Witness ==
  /\ RoundTrip
  /\ cur.addr = 255
  /\ cur.len = 258
  /\ prev.buf = "mixed"

(***************************************************************************)
(* C2  Write-enable precedes every mutating opcode.                        *)
(***************************************************************************)
\* the transactions that transmitted a mutating opcode
Mutations(t) ==
  {i \in SelAt(t) : HasOpcode(t, i) /\ Opcode(t, i) \in MutatingOpcodes}

\* a complete status poll: select, STATUS-READ, one byte read, unselect
IsPollAt(t, p) ==
  /\ p + 3 <= Len(t)
  /\ t[p].e = "sel"
  /\ t[p + 1].e = "tx"
  /\ t[p + 1].out = SPIFLASH_STATUSREAD
  /\ t[p + 2].e = "tx"
  /\ t[p + 3].e = "unsel"

\* the events at a..b are complete status polls and nothing else
PollsOnly(t, a, b) ==
  /\ (b - a + 1) % 4 = 0
  /\ \A q \in 0..(((b - a + 1) \div 4) - 1) : IsPollAt(t, a + 4 * q)

\* C2 as stated: the events right before the select of every mutating
\* opcode are select, WRITE-ENABLE, unselect.
C2_WriteEnableImmediatelyBefore ==
  \A i \in Mutations(trace) : i >= 4 /\ IsBare(trace, i - 3, SPIFLASH_WRITEENABLE)

\* C2 amended: every mutating opcode of a call is preceded, in the same
\* call, by a complete WRITE-ENABLE transaction (select, 0x06, unselect)
\* of its own, separated from it only by the STATUS-READ polls of the
\* busy-wait.
C2_WriteEnableBefore ==
  \A i \in Mutations(trace) :
    \E j \in SelAt(trace) :
      /\ j + 3 <= i
      /\ IsBare(trace, j, SPIFLASH_WRITEENABLE)
      /\ PollsOnly(trace, j + 3, i - 1)

\* writeBytes over a page boundary has returned: two programs in one call
C2_Witness ==
  /\ Returned("writeBytes")
  /\ Cardinality(Bursts(trace)) = 2

(***************************************************************************)
(* C3  Busy precedes every opcode.                                         *)
(***************************************************************************)
\* C3: no opcode other than the STATUS-READ poll is transmitted while the
\* chip is busy with a program, an erase or a status write.
C3_NoOpcodeWhileBusy ==
  \A i \in SelAt(trace) :
    (HasOpcode(trace, i) /\ Opcode(trace, i) # SPIFLASH_STATUSREAD)
      => ~trace[i + 1].bsy

(***************************************************************************)
(* C4  Balanced framing.                                                   *)
(***************************************************************************)
\* the select and unselect events of the trace, in order
Framing(t) == SelectSeq(t, LAMBDA ev : ev.e # "tx")

\* select and unselect alternate, starting with a select
Alternates(F) ==
  \A p \in 1..Len(F) : F[p].e = (IF p % 2 = 1 THEN "sel" ELSE "unsel")

Balanced(F) == Alternates(F) /\ Len(F) % 2 = 0

\* C4 as stated: in every public operation every select is followed by
\* exactly one unselect before the next select, and on return the call
\* has made as many unselects as selects.
C4_BalancedAsStated ==
  /\ Alternates(Framing(trace))
  /\ Idle => Balanced(Framing(trace))

\* C4 amended: the same for every public operation other than
\* initialize; initialize first makes one unselect that closes no select
\* and is balanced from there on, so it returns with one more unselect
\* than selects.
C4_BalancedFraming ==
  LET F == Framing(trace)
      G == IF cur.op = "initialize" /\ F # <<>> THEN Tail(F) ELSE F
  IN /\ (cur.op = "initialize" /\ F # <<>>) => F[1].e = "unsel"
     /\ Alternates(G)
     /\ Idle => Balanced(G)
     /\ Returned("initialize") => Len(F) % 2 = 1

\* initialize has returned true: a leading unselect and six or more
\* framed transactions
C4_Witness ==
  /\ Returned("initialize")
  /\ ret = 1
  /\ Len(Framing(trace)) >= 13

(***************************************************************************)
(* C6  Identifier probe.                                                   *)
(***************************************************************************)
\* the JEDEC-ID transactions of the trace
IdReads(t) == WithOpcode(t, SPIFLASH_IDREAD)

\* first response byte << 8 | second response byte of the transaction at i
ResponseWord(t, i) == t[i + 2].in * 256 + t[i + 3].in

\* the identifier was read once, both response bytes, and it equals id
ResponseIs(t, id) ==
  \E i \in IdReads(t) :
    /\ IdReads(t) = {i}
    /\ i + 3 <= Len(t)
    /\ t[i + 2].e = "tx"
    /\ t[i + 3].e = "tx"
    /\ ResponseWord(t, i) = id

\* C6: when initialize() has returned, it returned true if the expected
\* identifier is 0 or the word (first JEDEC response byte << 8 | second
\* response byte) equals the expected identifier, and false otherwise.
C6_IdentifierProbe ==
  Returned("initialize") =>
    /\ ret \in {0, 1}
    /\ ret = 1 <=> (_jedecID = 0 \/ ResponseIs(trace, _jedecID))

\* initialize returned true on a matching non-zero identifier
C6_Witness ==
  /\ Returned("initialize")
  /\ ret = 1
  /\ _jedecID # 0
  /\ ResponseIs(trace, _jedecID)

(***************************************************************************)
(* C7  Global unprotect exactly on success.                                *)
(***************************************************************************)
\* the trace ends with STATUS-WRITE, the single payload byte 0x00 and the
\* unselect, with a complete WRITE-ENABLE transaction before it
EndsWithUnprotect(t) ==
  \E i \in WithOpcode(t, SPIFLASH_STATUSWRITE) :
    /\ WithOpcode(t, SPIFLASH_STATUSWRITE) = {i}
    /\ i + 3 = Len(t)
    /\ t[i + 2].e = "tx"
    /\ t[i + 2].out = 0
    /\ t[i + 3].e = "unsel"
    /\ \E j \in SelAt(t) : j < i /\ IsBare(t, j, SPIFLASH_WRITEENABLE)

\* the trace ends with the JEDEC-ID read: opcode, two bytes, unselect
EndsWithIdRead(t) ==
  \E i \in IdReads(t) : i + 4 = Len(t) /\ t[i + 4].e = "unsel"

\* C7: initialize() that returned true ended with the global unprotect (a
\* WRITE-ENABLE transaction, then STATUS-WRITE with the single payload
\* byte 0x00); initialize() that returned false transmitted neither
\* WRITE-ENABLE nor STATUS-WRITE, nothing at all after the JEDEC-ID read,
\* and left the protection bits and the write-enable latch of the status
\* register as it found them.
C7_UnprotectOnSuccess ==
  Returned("initialize") =>
    /\ ret = 1 <=> EndsWithUnprotect(trace)
    /\ ret # 1 =>
         /\ WithOpcode(trace, SPIFLASH_WRITEENABLE) = {}
         /\ WithOpcode(trace, SPIFLASH_STATUSWRITE) = {}
         /\ EndsWithIdRead(trace)
         /\ dev.sr = cur.sr
         /\ dev.wel => cur.wel

\* both outcomes: the unprotect was sent and took effect after a match ...
C7_Witness ==
  /\ Returned("initialize")
  /\ ret = 1
  /\ _jedecID = DevJedec
  /\ EndsWithUnprotect(trace)
  /\ ~dev.busy
  /\ dev.sr = 0

\* ... and a mismatch ended with the identifier read
C7_WitnessMismatch ==
  /\ Returned("initialize")
  /\ ret = 0
  /\ EndsWithIdRead(trace)
  /\ dev.sr = SRProtected

(***************************************************************************)
(* C8  Bus restoration.                                                    *)
(***************************************************************************)
\* the unselect that closes a framed transaction
ClosesTransaction == cs = "LOW" /\ cs' = "HIGH"

\* C8: chip-select is high whenever no public operation is running, and
\* the unselect that closes a framed transaction leaves the mode and
\* status registers of the bus peripheral with the values they had
\* immediately before the matching select.
C8_BusRestoration ==
  /\ [](Idle => cs = "HIGH")
  /\ [][ClosesTransaction =>
          /\ SPCR' = busCfgAtSelect[1]
          /\ SPSR' = busCfgAtSelect[2]]_vars

\* a transaction was closed on a bus another device had left in a
\* configuration that select changes
C8_Witness ==
  /\ Idle
  /\ trace # <<>>
  /\ trace[Len(trace)].e = "unsel"
  /\ SelAt(trace) # {}
  /\ busCfgAtSelect = <<124, 1>>
  /\ FlashSPCR(124) # 124
  /\ SPCR = 124
  /\ SPSR = 1

(***************************************************************************)
(* C9  writeBytes of length 0.                                             *)
(***************************************************************************)
\* a step of the driver (not of the chip or of another bus user) inside
\* writeBytes(addr, buf, 0)
StepOfEmptyWrite ==
  /\ stack # <<>>
  /\ stack' # stack
  /\ cur.op = "writeBytes"
  /\ cur.len = 0

\* C9: writeBytes(addr, buf, 0) returns in its first step without a
\* select, an unselect or a byte transfer, and leaves chip-select, the
\* interrupt flag, the bus configuration and the chip unchanged.
C9_EmptyWriteIsNoOp ==
  /\ []((cur.op = "writeBytes" /\ cur.len = 0) => trace = <<>>)
  /\ [][StepOfEmptyWrite =>
          /\ stack' = <<>>
          /\ UNCHANGED <<cs, intEnabled, SPCR, SPSR, _SPCR, _SPSR, dev, mem,
                         trace>>]_vars

\* writeBytes(0xFFFFFF, buf, 0) has returned
C9_Witness ==
  /\ Returned("writeBytes")
  /\ cur.len = 0
  /\ cur.addr = 16777215

(***************************************************************************)
(* C10  Address encoding.                                                  *)
(***************************************************************************)
\* opcode each addressed public operation sends
AddressedOps ==
  [readByte |-> SPIFLASH_ARRAYREADLOWFREQ, readBytes |-> SPIFLASH_ARRAYREAD,
   writeByte |-> SPIFLASH_BYTEPAGEPROGRAM,
   writeBytes |-> SPIFLASH_BYTEPAGEPROGRAM,
   blockErase4K |-> SPIFLASH_BLOCKERASE_4K,
   blockErase32K |-> SPIFLASH_BLOCKERASE_32K]

\* the transactions that transmitted an opcode carrying an address
Addressed(t) ==
  {i \in SelAt(t) : HasOpcode(t, i) /\ Opcode(t, i) \in AddressOpcodes}

\* ((a>>16)&0xFF, (a>>8)&0xFF, a&0xFF)
BigEndian(a) == <<(a \div 65536) % 256, (a \div 256) % 256, a % 256>>

\* address of the transaction at i: the call's address, plus, in
\* writeBytes, the bytes programmed by the bursts before it
ExpectedAddr(t, i) ==
  IF cur.op = "writeBytes" THEN cur.addr + Before(t, i) ELSE cur.addr

\* C10: every transaction with an addressed opcode belongs to an addressed
\* operation, and the bytes it transmits directly after the opcode are
\* ((a>>16)&0xFF, (a>>8)&0xFF, a&0xFF) in that order, all three once the
\* operation has returned; a is the address of the call and, for a burst
\* of writeBytes, that address plus the bytes already programmed.
C10_AddressEncoding ==
  /\ \A i \in Addressed(trace) :
       /\ cur.op \in DOMAIN AddressedOps
       /\ Opcode(trace, i) = AddressedOps[cur.op]
       /\ Idle => i + 4 <= Len(trace)
       /\ LET a == ExpectedAddr(trace, i)
          IN \A k \in 1..3 :
               i + 1 + k <= Len(trace) =>
                 /\ trace[i + 1 + k].e = "tx"
                 /\ trace[i + 1 + k].out = BigEndian(a)[k]
  /\ (/\ Idle
      /\ cur.op \in DOMAIN AddressedOps
      /\ cur.op = "writeBytes" => cur.len > 0)
       => Addressed(trace) # {}

\* the second burst of writeBytes(0x0000FE, buf, 4) went to 0x000100
C10_Witness ==
  /\ Returned("writeBytes")
  /\ cur.addr = 254
  /\ cur.len = 4
  /\ \E i \in Bursts(trace) :
       /\ Before(trace, i) = 2
       /\ trace[i + 2].out = 0
       /\ trace[i + 3].out = 1
       /\ trace[i + 4].out = 0

(***************************************************************************)
(* C11  Interrupt masking.                                                 *)
(***************************************************************************)
\* the step appends one event to the trace
Appends == Len(trace') = Len(trace) + 1

\* the step is a byte transfer
TransferStep == Appends /\ trace'[Len(trace')].e = "tx"

\* C11: global interrupts are disabled in every state in which chip-select
\* is low, and every byte transfer is made with chip-select low and
\* interrupts disabled, before and after it.
C11_InterruptMasking ==
  /\ [](cs = "LOW" => ~intEnabled)
  /\ [][TransferStep =>
          /\ cs = "LOW"
          /\ ~intEnabled
          /\ ~intEnabled']_vars

\* a transaction is open and a byte was transferred in it, after an
\* earlier unselect of the same call had enabled interrupts
C11_Witness ==
  /\ cs = "LOW"
  /\ ~intEnabled
  /\ trace[Len(trace)].e = "tx"
  /\ \E i \in 1..Len(trace) : trace[i].e = "unsel"

(***************************************************************************)
(* C12  Termination.                                                       *)
(***************************************************************************)
\* the chip is powered down and its undriven data line reads bit 0 set:
\* every status read answers busy, and only the wake opcode would end it
NeverReady == dev.asleep /\ ReportsBusy

\* a complete status poll of the trace that was answered busy
BusyPolls(t) == {i \in SelAt(t) : IsPollAt(t, i) /\ t[i + 2].in % 2 = 1}

\* C12 as stated: with the chip ending every internal program, erase and
\* status write it was given, every public operation eventually returns
\* with chip-select high.
C12_AlwaysReturns == (stack # <<>>) ~> (Idle /\ cs = "HIGH")

\* C12 amended: with the chip ending every internal operation it was
\* given, every public operation running on a chip that is not powered
\* down with its data line reading busy eventually returns with
\* chip-select high.
C12_Termination == (stack # <<>> /\ ~NeverReady) ~> (Idle /\ cs = "HIGH")

\* writeBytes over a page boundary has returned after waiting for the
\* program of its first burst
C12_Witness ==
  /\ Returned("writeBytes")
  /\ cs = "HIGH"
  /\ cur.len = 4
  /\ BusyPolls(trace) # {}

(***************************************************************************)
(* C13  Bus stall.                                                         *)
(***************************************************************************)
\* the current call reaches command(): every operation with bus I/O
\* except readStatus, busy, readDeviceId built without __AVR_ATmega32U4__
\* and writeBytes of no bytes
GoesThroughCommand ==
  /\ cur.op \notin {"none", "readStatus", "busy", "end"}
  /\ ~(cur.op = "readDeviceId" /\ ~build32U4)
  /\ ~(cur.op = "writeBytes" /\ cur.len = 0)

\* the trace without the unselect initialize starts with
Transactions(t) ==
  IF cur.op = "initialize" /\ t # <<>> THEN Tail(t) ELSE t

\* nothing but status polls answered busy, each closed before the next
OnlyBusyPolls(t) ==
  /\ Alternates(Framing(t))
  /\ \A p \in 1..Len(t) :
       t[p].e = "tx" =>
         \/ /\ t[p - 1].e = "sel"
            /\ t[p].out = SPIFLASH_STATUSREAD
         \/ /\ p >= 3
            /\ t[p - 1].e = "tx"
            /\ t[p - 2].e = "sel"
            /\ t[p].in % 2 = 1

\* C13: while the chip answers every status read with bit 0 set, an
\* operation that goes through command() does not return and the chip
\* stays as it is; its trace holds only balanced STATUS-READ transactions
\* answered busy, never its opcode; readStatus and busy do not wait and
\* always return.
C13_BusStall ==
  /\ []((NeverReady /\ stack # <<>> /\ GoesThroughCommand)
          => OnlyBusyPolls(Transactions(trace)))
  /\ [][(NeverReady /\ stack # <<>> /\ GoesThroughCommand)
          => (stack' # <<>> /\ NeverReady')]_vars
  /\ (stack # <<>> /\ cur.op \in {"readStatus", "busy"}) ~> Idle

\* readByte waits on a powered-down chip whose data line reads high
C13_Witness ==
  /\ NeverReady
  /\ cur.op = "readByte"
  /\ stack # <<>>
  /\ BusyPolls(trace) # {}

\* busy() has returned true on the same chip
C13_BusyUsable ==
  /\ NeverReady
  /\ Returned("busy")
  /\ ret = 1

(***************************************************************************)
(* C14  Erase is non-blocking and awaited by the next command.             *)
(***************************************************************************)
\* opcode and number of address bytes of each erase operation
EraseOps ==
  [chipErase |-> <<SPIFLASH_CHIPERASE, 0>>,
   blockErase4K |-> <<SPIFLASH_BLOCKERASE_4K, 3>>,
   blockErase32K |-> <<SPIFLASH_BLOCKERASE_32K, 3>>]

\* the trace ends with the one transaction of opcode op: the opcode, n
\* more bytes and the unselect
EndsWithCommand(t, op, n) ==
  \E i \in WithOpcode(t, op) :
    /\ WithOpcode(t, op) = {i}
    /\ Len(t) = i + n + 2
    /\ EndOf(t, i) = Len(t)
    /\ t[Len(t)].e = "unsel"

\* the transaction at i was opened by command(): every opcode but the
\* status polls and the JEDEC-ID read built without __AVR_ATmega32U4__
IssuedByCommand(t, i) ==
  /\ HasOpcode(t, i)
  /\ Opcode(t, i) # SPIFLASH_STATUSREAD
  /\ ~(Opcode(t, i) = SPIFLASH_IDREAD /\ ~build32U4)

C14_BusyOnReturn ==
  /\ Idle
  /\ cur.op \in DOMAIN EraseOps
  /\ dev.busy

(***************************************************************************)
(* C15  Minimal burst count of writeBytes.                                 *)
(***************************************************************************)
\* min(len, 256 - (addr mod 256))
FirstBurstBytes(addr, len) ==
  IF len <= 256 - (addr % 256) THEN len ELSE 256 - (addr % 256)

\* number of 256-byte pages [addr, addr+len) touches, len > 0
PagesTouched(addr, len) == ((addr + len - 1) \div 256) - (addr \div 256) + 1

\* C15: in writeBytes(addr, buf, len) with len > 0 the first burst, once
\* closed, carried min(len, 256 - (addr mod 256)) bytes, every later burst
\* is sent to a multiple of 256 and every burst followed by another ended
\* on a multiple of 256; when the call has returned there were as many
\* bursts as [addr, addr+len) touches pages.
C15_MinimalBursts ==
  (cur.op = "writeBytes" /\ cur.len > 0) =>
    LET B == Bursts(trace)
    IN /\ \A i \in B :
            /\ ((\A j \in B : i <= j) /\ EndOf(trace, i) <= Len(trace))
                 => BurstLenOf(trace, i) = FirstBurstBytes(cur.addr, cur.len)
            /\ ((\E j \in B : j < i) /\ i + 4 <= Len(trace))
                 => BurstAddr(trace, i) % 256 = 0
            /\ (\E j \in B : i < j)
                 => (BurstAddr(trace, i) + BurstLenOf(trace, i)) % 256 = 0
       /\ Idle => Cardinality(B) = PagesTouched(cur.addr, cur.len)

\* 258 bytes from 0x0000FF went out as 1, 256 and 1 bytes
C15_Witness ==
  /\ Returned("writeBytes")
  /\ cur.addr = 255
  /\ \E i, j, k \in Bursts(trace) :
       /\ i < j /\ j < k
       /\ BurstLenOf(trace, i) = 1
       /\ BurstLenOf(trace, j) = 256
       /\ BurstLenOf(trace, k) = 1

\* the page-aligned write of 2 bytes to 0x000100 went out as one burst
C15_AlignedFirstBurst ==
  /\ Returned("writeBytes")
  /\ cur.addr = 256
  /\ cur.len = 2
  /\ \E i \in Bursts(trace) : Bursts(trace) = {i} /\ BurstLenOf(trace, i) = 2

(***************************************************************************)
(* C16  No mutating command is dropped by the device.                      *)
(***************************************************************************)
\* the step transmits a mutating opcode as the first byte of a transaction
MutatingOpcodeSent ==
  /\ TransferStep
  /\ trace # <<>>
  /\ trace[Len(trace)].e = "sel"
  /\ trace'[Len(trace')].out \in MutatingOpcodes

\* the chip takes the opcode: latch set, not busy, command accepted
TakenByDevice == dev.wel /\ ~dev.busy /\ dev'.ok

SelectStep == Appends /\ trace'[Len(trace')].e = "sel"

\* the last select of the trace has no unselect after it
TransactionOpen(t) ==
  LET F == Framing(t) IN F # <<>> /\ F[Len(F)].e = "sel"

\* C17: select is called only with chip-select high, chip-select is low
\* exactly from a select to the next unselect, and the saved bus
\* snapshot is not written while chip-select is low.
C17_NoNesting ==
  /\ [](cs = "LOW" <=> TransactionOpen(trace))
  /\ [][/\ SelectStep => cs = "HIGH"
        /\ cs = "LOW" => UNCHANGED <<_SPCR, _SPSR>>]_vars

\* writeByte has its program transaction open, after the polls and the
\* write-enable transaction of command() were closed
C17_Witness ==
  /\ cur.op = "writeByte"
  /\ cs = "LOW"
  /\ Bursts(trace) # {}
  /\ Len(Framing(trace)) >= 7

(***************************************************************************)
(* C18  Non-mutating operations leave the device contents alone.           *)
(***************************************************************************)
NonMutatingOps ==
  {"readStatus", "busy", "readDeviceId", "readUniqueId", "readByte",
   "readBytes", "sleep", "wakeup"}

\* a step of the driver inside a non-mutating operation
StepOfNonMutating ==
  /\ cur.op \in NonMutatingOps
  /\ stack # <<>>
  /\ stack' # stack

\* C18: readStatus, busy, readDeviceId, readUniqueId, readByte, readBytes,
\* sleep and wakeup transmit neither WRITE-ENABLE nor a mutating opcode,
\* and none of their steps changes the flash array, the protection bits,
\* the write-enable latch or the busy state of the chip; only sleep and
\* wakeup change its power state.
C18_NonMutatingOps ==
  /\ [](cur.op \in NonMutatingOps =>
          \A i \in SelAt(trace) :
            HasOpcode(trace, i) =>
              Opcode(trace, i)
                \notin MutatingOpcodes \cup {SPIFLASH_WRITEENABLE})
  /\ [][StepOfNonMutating =>
          /\ mem' = mem
          /\ dev'.sr = dev.sr
          /\ dev'.wel = dev.wel
          /\ dev'.busy = dev.busy
          /\ cur.op \notin {"sleep", "wakeup"} => dev'.asleep = dev.asleep]_vars

\* sleep has returned: the chip is powered down, array and protection
\* bits as at power-up
C18_Witness ==
  /\ Returned("sleep")
  /\ dev.asleep
  /\ mem = (74566 :> 15)
  /\ dev.sr = SRProtected
  /\ ~dev.wel

(***************************************************************************)
(* C19  wakeup is gated by the busy poll.                                  *)
(***************************************************************************)
\* wakeup() or initialize(), which calls it first, runs on a chip that
\* answers every status read busy
WakeStalled ==
  /\ NeverReady
  /\ stack # <<>>
  /\ cur.op \in {"wakeup", "initialize"}

\* C19: every RELEASE-FROM-POWER-DOWN opcode follows a status poll that
\* read bit 0 clear; while the powered-down chip answers every status
\* read with bit 0 set, wakeup() and initialize() have not transmitted the
\* wake opcode, do not return, and the chip stays powered down.
C19_WakeupGated ==
  /\ [](/\ \A i \in WithOpcode(trace, SPIFLASH_WAKE) :
             /\ i >= 5
             /\ IsPollAt(trace, i - 4)
             /\ trace[i - 2].in % 2 = 0
        /\ WakeStalled => WithOpcode(trace, SPIFLASH_WAKE) = {})
  /\ [][WakeStalled => (stack' # <<>> /\ NeverReady')]_vars

\* initialize(), called after sleep(), waits in wakeup() after a poll
\* answered busy
C19_Witness ==
  /\ WakeStalled
  /\ cur.op = "initialize"
  /\ Top.fn = "command"
  /\ Top.cmd = SPIFLASH_WAKE
  /\ BusyPolls(trace) # {}

(***************************************************************************)
(* C20  The interrupt flag is not saved and restored.                      *)
(***************************************************************************)
\* the current call performs bus I/O: every operation but end() and
\* writeBytes of no bytes
PerformsBusIO ==
  /\ cur.op \notin {"none", "end"}
  /\ ~(cur.op = "writeBytes" /\ cur.len = 0)

\* the step is a call of unselect
UnselectStep == Appends /\ trace'[Len(trace')].e = "unsel"

\* C20: every unselect leaves global interrupts enabled, so every public
\* operation that performs bus I/O returns with interrupts enabled, also
\* when it was entered with interrupts disabled.
C20_InterruptsEnabledOnReturn ==
  /\ []((Idle /\ PerformsBusIO) => intEnabled)
  /\ [][UnselectStep => intEnabled']_vars

\* writeByte between its write-enable transaction and its program
\* transaction: chip-select high and interrupts enabled
C20_Witness ==
  /\ cur.op = "writeByte"
  /\ stack # <<>>
  /\ intEnabled
  /\ cs = "HIGH"
  /\ trace # <<>>
  /\ IsBare(trace, Len(trace) - 2, SPIFLASH_WRITEENABLE)
  /\ Bursts(trace) = {}

=============================================================================
